---- MODULE Spec2Model ----
(***************************************************************************)
(* A model of the entity-component-system library `ecs`:                   *)
(*   - ecs/managers.py  EntityManager  (component database, guid counter)  *)
(*   - ecs/managers.py  SystemManager  (type registry + ordered list)      *)
(*   - ecs/system.py    SystemManager  (priority-sorted list, sys_man)     *)
(*   - ecs/models.py    Entity         (__hash__ / __eq__ on the guid)     *)
(*   - ecs/entity.py    EntityManager  (the older class: delete_entity)    *)
(* setup.py declares CPython 2.6/2.7, CPython 3.3 and PyPy; the model      *)
(* carries the interpreter as a variable because dict.keys() and the       *)
(* iteration order of a dict differ between them.                          *)
(***************************************************************************)
EXTENDS Integers, Sequences, FiniteSets, TLC

(* ------------------------------ bounds --------------------------------- *)
\* create_entity is called at most MaxGuid times: the entities are 0 .. MaxGuid-1
MaxGuid == 2
\* number of distinct component types
NumTypes == 2
\* number of component instances of the first type (the others have one)
NumInstances == 2
\* number of distinct system types
NumSysTypes == 2
\* number of instances of the first system type (the others have one)
NumSysInstances == 2
\* priorities passed to add_system are 0 .. MaxPriority
MaxPriority == 1
\* number of distinct dt values passed to a tick
NumDts == 2

VARIABLES
    build,        \* the interpreter running the library (setup.py classifiers)
    database,     \* EntityManager._database : type -> (entity -> component)
    next_guid,    \* EntityManager._next_guid
    result,       \* what the most recent call returned or raised
    held,         \* history: the component last added to (entity, type) and not removed since
    created,      \* history: the identifiers returned by create_entity, in call order
    variant,      \* the module whose manager classes are in use: ecs/managers.py,
                  \* ecs/system.py (SystemManager) or ecs/entity.py (EntityManager)
    systems,      \* SystemManager._systems : the ordered list of systems
    system_types, \* SystemManager._system_types : type -> instance (managers.py only)
    priority,     \* System.priority of every system instance (system.py only)
    sys_man,      \* System.sys_man of every system instance (system.py only)
    pc,           \* "idle", or "update" while the loop of a tick is running
    it,           \* the list iterator of the running tick: items consumed so far
    args,         \* the arguments the caller passed to the running or last tick
    calls,        \* the update hooks invoked by the running or last tick, in order
    add_order,    \* history: the registered systems in the order of their add_system calls
    other_systems, \* SystemManager._systems of a second manager (system.py only)
    at_start      \* history: the list of the manager when the running or last tick was entered

emonly == <<build, database, next_guid, held, created>>
smonly == <<variant, systems, system_types, priority, sys_man, pc, it, args, calls, add_order,
           other_systems, at_start>>
vars == <<build, database, next_guid, held, created, result,
          variant, systems, system_types, priority, sys_man, pc, it, args, calls, add_order,
          other_systems, at_start>>

(* ------------------------------ values --------------------------------- *)
Builds == {"cpython2", "cpython3", "pypy"}

\* dict.keys() is a list (a snapshot) on Python 2 and a live view on Python 3
KeysIsSnapshot(b) == b \in {"cpython2", "pypy"}
\* dict iteration follows insertion on PyPy; on CPython 2.x / 3.3 it follows
\* the hash slots, which for small non-negative integer hashes is ascending
InsertionOrdered(b) == b = "pypy"

Guids == 0 .. (MaxGuid - 1)
Types == 1 .. NumTypes
Components == {<<T, 1>> : T \in Types} \cup {<<1, i>> : i \in 1 .. NumInstances}
NoComponent == <<0, 0>>

\* type(component_instance)
type(c) == c[1]

\* an entity_id argument: an ecs.models.Entity or a plain int
Entity(guid) == [form |-> "Entity", guid |-> guid]
RawInt(n) == [form |-> "int", guid |-> n]
Keys == {Entity(g) : g \in Guids} \cup {RawInt(g) : g \in Guids}

\* Entity.__hash__ returns the guid; hash(int) is the int (small values)
hash(k) == IF k.form = "Entity" THEN k.guid ELSE k.guid

\* Entity.__eq__(self, other): self._guid == hash(other).  int == Entity
\* falls back to the reflected Entity.__eq__; int == int compares values.
eq(a, b) ==
    IF a.form = "Entity" THEN a.guid = hash(b)
    ELSE IF b.form = "Entity" THEN b.guid = hash(a)
    ELSE a.guid = b.guid

\* the outcome of a call: what it returned or raised
None == [kind |-> "None"]
Returned(c) == [kind |-> "component", component |-> c]
ReturnedEntity(e) == [kind |-> "entity", entity |-> e]
ReturnedPairs(ps) == [kind |-> "pairs", pairs |-> ps]
NonexistentComponentTypeForEntity(entity_instance, component_type) ==
    [kind |-> "raise", exc |-> "NonexistentComponentTypeForEntity",
     entity_instance |-> entity_instance, component_type |-> component_type]
RuntimeError == [kind |-> "raise", exc |-> "RuntimeError"]
\* a Python 3 dict has no iterkeys
AttributeError == [kind |-> "raise", exc |-> "AttributeError"]

(* system instances: every type has one instance, the first type has
   NumSysInstances of them *)
SysTypes == 1 .. NumSysTypes
Systems == {<<T, 1>> : T \in SysTypes} \cup {<<1, i>> : i \in 1 .. NumSysInstances}
Priorities == 0 .. MaxPriority
Dts == 1 .. NumDts
\* System.sys_man is None, or the manager that holds the system
NoManager == "None"
Self == "SystemManager"
\* a second manager of the same program
Other == "OtherSystemManager"
\* an add_system call that leaves the priority argument out
Omitted == -1

(* --------------------------- the inner dict ---------------------------- *)
\* An inner mapping is a sequence of entries [key, val] in iteration order.
\* The key of an entry is the key object of the insertion that created it
\* (an Entity or an int); an assignment to an existing key keeps it.

\* a lookup matches the entry whose key has the same hash and compares equal
RECURSIVE IndexOf(_, _, _)
IndexOf(d, k, i) ==
    IF i > Len(d) THEN 0
    ELSE IF hash(d[i].key) = hash(k) /\ eq(d[i].key, k) THEN i
    ELSE IndexOf(d, k, i + 1)

HasKey(d, k) == IndexOf(d, k, 1) # 0

DictGet(d, k) == d[IndexOf(d, k, 1)].val

\* a new key that always lands in front
InsertAtFront(b, d, g) == 1

\* position at which a new key lands in iteration order
InsertAt(b, d, g) ==
    IF InsertionOrdered(b) THEN Len(d) + 1
    ELSE 1 + Cardinality({i \in 1 .. Len(d) : hash(d[i].key) < g})

\* d[k] = v that leaves an existing entry alone (d.setdefault(k, v))
DictSetKeepFirst(b, d, k, v) ==
    LET i == IndexOf(d, k, 1) IN
    IF i # 0 THEN d
    ELSE LET p == InsertAt(b, d, hash(k)) IN
         SubSeq(d, 1, p - 1) \o <<[key |-> k, val |-> v]>> \o SubSeq(d, p, Len(d))

\* d[k] = v
DictSet(b, d, k, v) ==
    LET i == IndexOf(d, k, 1) IN
    IF i # 0 THEN [d EXCEPT ![i].val = v]
    ELSE LET p == InsertAt(b, d, hash(k)) IN
         SubSeq(d, 1, p - 1) \o <<[key |-> k, val |-> v]>> \o SubSeq(d, p, Len(d))

\* a deletion that drops the first entry whatever its key
DictDelFirst(d, k) == Tail(d)

\* del d[k]  (the caller has checked HasKey)
DictDel(d, k) ==
    LET i == IndexOf(d, k, 1) IN
    SubSeq(d, 1, i - 1) \o SubSeq(d, i + 1, Len(d))

\* d.items()
items(d) == [i \in 1 .. Len(d) |-> <<d[i].key, d[i].val>>]

\* a forgotten `del`: the key stays
WithoutForgotten(db, T) == db

\* the outer dict without one key
Without(db, T) == [U \in (DOMAIN db) \ {T} |-> db[U]]

(* ---------------------------- EntityManager ---------------------------- *)
\* the database after add_component
AddComponent(b, db, entity_id, component_instance) ==
    LET component_type == type(component_instance)
        db1 == IF component_type \notin DOMAIN db
               THEN db @@ (component_type :> <<>>)
               ELSE db
    IN [db1 EXCEPT ![component_type] =
            DictSet(b, @, entity_id, component_instance)]

\* the try-body without the pruning of an emptied type
DelEntryNoPrune(db, entity_id, component_type) ==
    IF component_type \in DOMAIN db /\ HasKey(db[component_type], entity_id)
    THEN [db EXCEPT ![component_type] = DictDel(@, entity_id)]
    ELSE db

\* the try-body shared by remove_component and remove_entity:
\* delete the entry, prune the type when its mapping became empty;
\* a KeyError of either lookup is swallowed
DelEntry(db, entity_id, component_type) ==
    IF component_type \in DOMAIN db /\ HasKey(db[component_type], entity_id)
    THEN LET d == DictDel(db[component_type], entity_id) IN
         IF d = <<>> THEN Without(db, component_type)
         ELSE [db EXCEPT ![component_type] = d]
    ELSE db

\* a removal that drops the whole inner mapping of the type
RemoveComponentWholeType(db, entity_id, component_type) ==
    IF component_type \in DOMAIN db /\ HasKey(db[component_type], entity_id)
    THEN Without(db, component_type)
    ELSE db

\* remove_component
RemoveComponent(db, entity_id, component_type) ==
    DelEntry(db, entity_id, component_type)

\* remove_entity on Python 2: the loop runs over the list keys() returned
RECURSIVE WalkSnapshot(_, _, _)
WalkSnapshot(db, ks, entity_id) ==
    IF ks = <<>> THEN [db |-> db, raised |-> FALSE]
    ELSE WalkSnapshot(DelEntry(db, entity_id, Head(ks)), Tail(ks), entity_id)

\* remove_entity on Python 3: the loop runs over the live key view; the
\* iterator raises RuntimeError on its next step once the dict changed size
RECURSIVE WalkView(_, _, _)
WalkView(db, ks, entity_id) ==
    IF ks = <<>> THEN [db |-> db, raised |-> FALSE]
    ELSE LET db1 == DelEntry(db, entity_id, Head(ks)) IN
         IF DOMAIN db1 # DOMAIN db THEN [db |-> db1, raised |-> TRUE]
         ELSE WalkView(db1, Tail(ks), entity_id)

RemoveEntity(b, db, ks, entity_id) ==
    IF KeysIsSnapshot(b) THEN WalkSnapshot(db, ks, entity_id)
    ELSE WalkView(db, ks, entity_id)

\* the orders in which the keys of the outer dict can be iterated (the keys
\* are classes, hashed by address)
KeyOrders(db) ==
    LET n == Cardinality(DOMAIN db) IN
    {ks \in [1 .. n -> DOMAIN db] : \A i, j \in 1 .. n : i # j => ks[i] # ks[j]}

\* one of them
RECURSIVE SomeKeyOrder(_)
SomeKeyOrder(S) ==
    IF S = {} THEN <<>>
    ELSE LET T == CHOOSE U \in S : TRUE IN <<T>> \o SomeKeyOrder(S \ {T})

pairs_for_type(db, component_type) ==
    IF component_type \in DOMAIN db
    THEN ReturnedPairs(items(db[component_type]))
    ELSE ReturnedPairs(<<>>)

component_for_entity(db, entity_id, component_type) ==
    IF component_type \in DOMAIN db /\ HasKey(db[component_type], entity_id)
    THEN Returned(DictGet(db[component_type], entity_id))
    ELSE NonexistentComponentTypeForEntity(entity_id, component_type)

\* a counter that is not advanced
AllocGuidStuck(n) == n

\* self._next_guid += 1
AllocGuid(n) == n + 1

(* history bookkeeping, written from the calls and not from the database *)
HeldAfterAdd(h, g, c) == [h EXCEPT ![g][type(c)] = c]
HeldAfterRemove(h, g, T) == [h EXCEPT ![g][T] = NoComponent]
HeldAfterRemoveEntity(h, g) == [h EXCEPT ![g] = [T \in Types |-> NoComponent]]

\* EntityManager.__init__
InitEntityManager ==
    /\ database = <<>>
    /\ next_guid = 0
    /\ held = [g \in Guids |-> [T \in Types |-> NoComponent]]
    /\ created = <<>>

\* SystemManager.__init__ and System.__init__
InitSystemManager ==
    /\ systems = <<>>
    /\ system_types = <<>>
    /\ priority = [s \in Systems |-> 0]
    /\ sys_man = [s \in Systems |-> NoManager]
    /\ pc = "idle"
    /\ it = 0
    /\ args = <<>>
    /\ calls = <<>>
    /\ add_order = <<>>
    /\ other_systems = <<>>
    /\ at_start = <<>>

InitEM ==
    /\ build \in Builds
    /\ variant = "managers"
    /\ result = None
    /\ InitEntityManager
    /\ InitSystemManager

\* a create_entity that files the new entity in the database
create_entity_stores ==
    /\ Len(created) < MaxGuid
    /\ result' = ReturnedEntity(Entity(next_guid))
    /\ next_guid' = AllocGuid(next_guid)
    /\ created' = Append(created, next_guid)
    /\ database' = AddComponent(build, database, Entity(next_guid), <<1, 1>>)
    /\ UNCHANGED <<build, held>>
    /\ UNCHANGED smonly

\* create_entity
create_entity ==
    /\ Len(created) < MaxGuid
    /\ result' = ReturnedEntity(Entity(next_guid))
    /\ next_guid' = AllocGuid(next_guid)
    /\ created' = Append(created, next_guid)
    /\ UNCHANGED <<build, database, held>>
    /\ UNCHANGED smonly

add_component(entity_id, component_instance) ==
    /\ database' = AddComponent(build, database, entity_id, component_instance)
    /\ result' = None
    /\ held' = HeldAfterAdd(held, hash(entity_id), component_instance)
    /\ UNCHANGED <<build, next_guid, created>>
    /\ UNCHANGED smonly

remove_component(entity_id, component_type) ==
    /\ database' = RemoveComponent(database, entity_id, component_type)
    /\ result' = None
    /\ held' = HeldAfterRemove(held, hash(entity_id), component_type)
    /\ UNCHANGED <<build, next_guid, created>>
    /\ UNCHANGED smonly

\* (a loop over a snapshot visits every key whatever the order, so one order
\* stands for all of them there)
remove_entity(entity_id) ==
    \E ks \in IF KeysIsSnapshot(build) THEN {SomeKeyOrder(DOMAIN database)}
               ELSE KeyOrders(database) :
        LET r == RemoveEntity(build, database, ks, entity_id) IN
        /\ database' = r.db
        /\ result' = IF r.raised THEN RuntimeError ELSE None
        /\ held' = HeldAfterRemoveEntity(held, hash(entity_id))
        /\ UNCHANGED <<build, next_guid, created>>
        /\ UNCHANGED smonly

\* a query that files an empty mapping for a type it does not find
\* (self._database.setdefault(component_type, {}).items())
call_pairs_for_type_creates(component_type) ==
    /\ result' = pairs_for_type(database, component_type)
    /\ database' = IF component_type \in DOMAIN database THEN database
                    ELSE database @@ (component_type :> <<>>)
    /\ UNCHANGED <<build, next_guid, held, created>>
    /\ UNCHANGED smonly

\* pairs_for_type called by the driver
call_pairs_for_type(component_type) ==
    /\ result' = pairs_for_type(database, component_type)
    /\ UNCHANGED <<build, database, next_guid, held, created>>
    /\ UNCHANGED smonly

call_component_for_entity(entity_id, component_type) ==
    /\ result' = component_for_entity(database, entity_id, component_type)
    /\ UNCHANGED <<build, database, next_guid, held, created>>
    /\ UNCHANGED smonly

\* the entity_id arguments the driver has: the entities create_entity
\* returned so far
KnownKeys == {Entity(created[i]) : i \in 1 .. Len(created)}

\* the calls that write the manager
NextEM ==
    \/ create_entity
    \/ \E k \in KnownKeys, c \in Components : add_component(k, c)
    \/ \E k \in KnownKeys, T \in Types : remove_component(k, T)
    \/ \E k \in KnownKeys : remove_entity(k)

SpecEM == InitEM /\ [][NextEM]_vars

\* the calls that add or delete single entries (every database remove_entity
\* can leave is also reached by them)
NextEntries ==
    \/ create_entity
    \/ \E k \in KnownKeys, c \in Components : add_component(k, c)
    \/ \E k \in KnownKeys, T \in Types : remove_component(k, T)

SpecEntries == InitEM /\ [][NextEntries]_vars

\* the same with the two queries interleaved
NextEMQ ==
    \/ NextEM
    \/ \E T \in Types : call_pairs_for_type(T)
    \/ \E k \in KnownKeys, T \in Types : call_component_for_entity(k, T)

SpecEMQ == InitEM /\ [][NextEMQ]_vars

\* the single-entry calls, adding one instance per type, with the two
\* queries interleaved
NextQueries ==
    \/ create_entity
    \/ \E k \in KnownKeys, T \in Types : add_component(k, <<T, 1>>)
    \/ \E k \in KnownKeys, T \in Types : remove_component(k, T)
    \/ \E T \in Types : call_pairs_for_type(T)
    \/ \E k \in KnownKeys, T \in Types : call_component_for_entity(k, T)

SpecQueries == InitEM /\ [][NextQueries]_vars

(* the EntityManager of ecs/entity.py: the same database layout, the counter
   is called lowest_guid, and the entity is removed by delete_entity *)
\* ecs/entity.py EntityManager.new_entity
new_entity == create_entity

\* ecs/entity.py EntityManager.add_component
ent_add_component(entity_id, component_instance) ==
    add_component(entity_id, component_instance)

\* ecs/entity.py EntityManager.remove_component
ent_remove_component(entity_id, component_type) ==
    remove_component(entity_id, component_type)

\* ecs/entity.py EntityManager.delete_entity: the loop runs over
\* self.database.iterkeys(), the live dict on Python 2 and no attribute of a
\* dict on Python 3
delete_entity(entity_id) ==
    \E ks \in KeyOrders(database) :
        LET r == IF build = "cpython3"
                 THEN [db |-> database, raised |-> TRUE]
                 ELSE WalkView(database, ks, entity_id) IN
        /\ database' = r.db
        /\ result' = IF build = "cpython3" THEN AttributeError
                      ELSE IF r.raised THEN RuntimeError ELSE None
        /\ held' = HeldAfterRemoveEntity(held, hash(entity_id))
        /\ UNCHANGED <<build, next_guid, created>>
        /\ UNCHANGED smonly

\* either EntityManager class, with the calls that write it
InitRemoval ==
    /\ build \in Builds
    /\ variant \in {"managers", "entity"}
    /\ result = None
    /\ InitEntityManager
    /\ InitSystemManager

NextEntityPy ==
    \/ new_entity
    \/ \E k \in KnownKeys, c \in Components : ent_add_component(k, c)
    \/ \E k \in KnownKeys, T \in Types : ent_remove_component(k, T)
    \/ \E k \in KnownKeys : delete_entity(k)

NextRemoval ==
    \/ variant = "managers" /\ NextEM
    \/ variant = "entity" /\ NextEntityPy

SpecRemoval == InitRemoval /\ [][NextRemoval]_vars

\* the same entities, each as the Entity create_entity returned and as the
\* plain int of its identifier
KnownKeysBothForms ==
    KnownKeys \cup {RawInt(created[i]) : i \in 1 .. Len(created)}

\* the calls that write the manager, with either form of the entity argument
NextKeys ==
    \/ create_entity
    \/ \E k \in KnownKeysBothForms, c \in Components : add_component(k, c)
    \/ \E k \in KnownKeysBothForms, T \in Types : remove_component(k, T)
    \/ \E k \in KnownKeysBothForms : remove_entity(k)

SpecKeys == InitEM /\ [][NextKeys]_vars

TypeOK ==
    /\ build \in Builds
    /\ DOMAIN database \subseteq Types
    /\ next_guid \in 0 .. MaxGuid
    /\ pc \in {"idle", "update"}
    /\ variant \in {"managers", "system", "entity"}

(* ---------------------------- SystemManager ---------------------------- *)
DuplicateSystemTypeError(system_type) ==
    [kind |-> "raise", exc |-> "DuplicateSystemTypeError", system_type |-> system_type]
\* ecs/system.py raises its exception without an argument
DuplicateSystemTypeException ==
    [kind |-> "raise", exc |-> "DuplicateSystemTypeException"]
KeyError(key) == [kind |-> "raise", exc |-> "KeyError", key |-> key]
\* update has been entered and has not returned yet
Running == [kind |-> "running"]
\* whatever the update hook of a system raises
HookError(system) == [kind |-> "raise", exc |-> "HookError", system |-> system]

\* a removal that drops the head of the list whatever it is (l.pop(0))
ListRemoveHead(l, x) == Tail(l)

\* list.remove(x): drop the first item equal to x
RECURSIVE ListRemove(_, _)
ListRemove(l, x) ==
    IF l = <<>> THEN <<>>
    ELSE IF Head(l) = x THEN Tail(l)
    ELSE <<Head(l)>> \o ListRemove(Tail(l), x)

\* an insertion that puts x in front of the items of equal key (not stable)
RECURSIVE InsertByKeyUnstable(_, _, _)
InsertByKeyUnstable(l, x, key) ==
    IF l = <<>> THEN <<x>>
    ELSE IF key[x] <= key[Head(l)] THEN <<x>> \o l
    ELSE <<Head(l)>> \o InsertByKeyUnstable(Tail(l), x, key)

\* one insertion of a stable sort: x goes behind every item whose key is
\* not greater than its own
RECURSIVE InsertByKey(_, _, _)
InsertByKey(l, x, key) ==
    IF l = <<>> THEN <<x>>
    ELSE IF key[x] < key[Head(l)] THEN <<x>> \o l
    ELSE <<Head(l)>> \o InsertByKey(Tail(l), x, key)

\* list.sort(key=lambda s: s.priority), a stable sort
RECURSIVE SortByKey(_, _)
SortByKey(l, key) ==
    IF l = <<>> THEN <<>>
    ELSE InsertByKey(SortByKey(SubSeq(l, 1, Len(l) - 1), key), l[Len(l)], key)

\* def add_system(self, system_instance, priority=0)
ArgOrDefault(p) == IF p = Omitted THEN 0 ELSE p

\* ecs/managers.py: system_type in self._system_types
IsRegistered(reg, system_type) == system_type \in DOMAIN reg

\* ecs/system.py: [True for s in self._systems if type(s) is type(system_instance)]
HasSystemOfType(l, system_type) == \E i \in 1 .. Len(l) : type(l[i]) = system_type

\* ecs/system.py: the first system of the list whose type is system_type, 0 if none
RECURSIVE FirstOfType(_, _, _)
FirstOfType(l, system_type, i) ==
    IF i > Len(l) THEN 0
    ELSE IF type(l[i]) = system_type THEN i
    ELSE FirstOfType(l, system_type, i + 1)

\* a hook call that drops the arguments of the tick
HookArgsDropped(caller_args) == <<>>

\* the arguments a tick hands to every update hook
HookArgs(caller_args) == caller_args

\* a call that is not a tick invokes no update hook: the record of the
\* last tick is dropped
NoTick == it' = 0 /\ args' = <<>> /\ calls' = <<>> /\ at_start' = <<>>

\* an add_system that stores the instance before it looks for a duplicate
mgr_add_system_checks_late(system_instance) ==
    /\ variant = "managers"
    /\ pc = "idle"
    /\ LET system_type == type(system_instance) IN
       /\ system_types' = [T \in DOMAIN system_types \cup {system_type} |->
                               IF T = system_type THEN system_instance ELSE system_types[T]]
       /\ systems' = Append(systems, system_instance)
       /\ add_order' = Append(add_order, system_instance)
       /\ result' = IF IsRegistered(system_types, system_type)
                    THEN DuplicateSystemTypeError(system_type)
                    ELSE None
    /\ NoTick
    /\ UNCHANGED <<variant, priority, sys_man, pc>>
    /\ UNCHANGED other_systems
    /\ UNCHANGED emonly

\* ecs/managers.py SystemManager.add_system(system_instance)
mgr_add_system(system_instance) ==
    /\ variant = "managers"
    /\ pc = "idle"
    /\ LET system_type == type(system_instance) IN
       IF IsRegistered(system_types, system_type)
       THEN /\ result' = DuplicateSystemTypeError(system_type)
            /\ UNCHANGED <<systems, system_types, add_order>>
       ELSE /\ system_types' = system_types @@ (system_type :> system_instance)
            /\ systems' = Append(systems, system_instance)
            /\ add_order' = Append(add_order, system_instance)
            /\ result' = None
    /\ NoTick
    /\ UNCHANGED <<variant, priority, sys_man, pc>>
    /\ UNCHANGED other_systems
    /\ UNCHANGED emonly

\* a remove_system that, for a type it does not know, takes the oldest
\* system out before it fails
mgr_remove_system_drops(system_type) ==
    /\ variant = "managers"
    /\ pc = "idle"
    /\ IF ~IsRegistered(system_types, system_type)
       THEN /\ result' = KeyError(system_type)
            /\ systems' = IF systems = <<>> THEN systems ELSE Tail(systems)
            /\ system_types' = IF systems = <<>> THEN system_types
                                ELSE Without(system_types, type(Head(systems)))
            /\ add_order' = IF systems = <<>> THEN add_order
                             ELSE SelectSeq(add_order, LAMBDA s : s # Head(systems))
       ELSE /\ systems' = ListRemove(systems, system_types[system_type])
            /\ system_types' = Without(system_types, system_type)
            /\ add_order' = SelectSeq(add_order, LAMBDA s : type(s) # system_type)
            /\ result' = None
    /\ NoTick
    /\ UNCHANGED <<variant, priority, sys_man, pc>>
    /\ UNCHANGED other_systems
    /\ UNCHANGED emonly

\* ecs/managers.py SystemManager.remove_system(system_type)
mgr_remove_system(system_type) ==
    /\ variant = "managers"
    /\ pc = "idle"
    /\ IF ~IsRegistered(system_types, system_type)
       THEN /\ result' = KeyError(system_type)
            /\ UNCHANGED <<systems, system_types, add_order>>
       ELSE /\ systems' = ListRemove(systems, system_types[system_type])
            /\ system_types' = Without(system_types, system_type)
            /\ add_order' = SelectSeq(add_order, LAMBDA s : type(s) # system_type)
            /\ result' = None
    /\ NoTick
    /\ UNCHANGED <<variant, priority, sys_man, pc>>
    /\ UNCHANGED other_systems
    /\ UNCHANGED emonly

\* ecs/system.py SystemManager.add_system(system_instance, priority=0)
sys_add_system(system_instance, priority_arg) ==
    /\ variant = "system"
    /\ pc = "idle"
    /\ IF HasSystemOfType(systems, type(system_instance))
       THEN /\ result' = DuplicateSystemTypeException
            /\ UNCHANGED <<systems, priority, sys_man, add_order>>
       ELSE /\ priority' = [priority EXCEPT ![system_instance] = ArgOrDefault(priority_arg)]
            /\ sys_man' = [sys_man EXCEPT ![system_instance] = Self]
            /\ systems' = SortByKey(Append(systems, system_instance), priority')
            /\ add_order' = Append(add_order, system_instance)
            /\ result' = None
    /\ NoTick
    /\ UNCHANGED <<variant, system_types, pc>>
    /\ UNCHANGED other_systems
    /\ UNCHANGED emonly

\* ecs/system.py SystemManager.remove_system(system_type)
sys_remove_system(system_type) ==
    /\ variant = "system"
    /\ pc = "idle"
    /\ LET i == FirstOfType(systems, system_type, 1) IN
       IF i = 0
       THEN UNCHANGED <<systems, sys_man, add_order>>
       ELSE /\ sys_man' = [sys_man EXCEPT ![systems[i]] = NoManager]
            /\ systems' = ListRemove(systems, systems[i])
            /\ add_order' = SelectSeq(add_order, LAMBDA s : type(s) # system_type)
    /\ result' = None
    /\ NoTick
    /\ UNCHANGED <<variant, system_types, priority, pc>>
    /\ UNCHANGED other_systems
    /\ UNCHANGED emonly

\* entering ecs/managers.py SystemManager.update(dt)
mgr_update(dt) ==
    /\ variant = "managers"
    /\ pc = "idle"
    /\ pc' = "update"
    /\ it' = 0
    /\ args' = <<dt>>
    /\ calls' = <<>>
    /\ result' = Running
    /\ UNCHANGED <<variant, systems, system_types, priority, sys_man, add_order>>
    /\ at_start' = systems
    /\ UNCHANGED other_systems
    /\ UNCHANGED emonly

\* entering ecs/system.py SystemManager.update_systems(dt, entity_manager)
sys_update_systems(dt, entity_manager) ==
    /\ variant = "system"
    /\ pc = "idle"
    /\ pc' = "update"
    /\ it' = 0
    /\ args' = <<dt, entity_manager>>
    /\ calls' = <<>>
    /\ result' = Running
    /\ UNCHANGED <<variant, systems, system_types, priority, sys_man, add_order>>
    /\ at_start' = systems
    /\ UNCHANGED other_systems
    /\ UNCHANGED emonly

\* one turn of `for system in self._systems: system.update(...)`: the list
\* iterator yields the next item of the live list and the hook of that
\* system runs; the hook returns, or raises and the exception leaves update
update_step(raises) ==
    /\ pc = "update"
    /\ it < Len(systems)
    /\ LET system == systems[it + 1] IN
       /\ it' = it + 1
       /\ calls' = Append(calls, [system |-> system, args |-> HookArgs(args)])
       /\ IF raises
          THEN /\ pc' = "idle"
               /\ result' = HookError(system)
          ELSE UNCHANGED <<pc, result>>
    /\ UNCHANGED <<variant, systems, system_types, priority, sys_man, args, add_order>>
    /\ UNCHANGED <<other_systems, at_start>>
    /\ UNCHANGED emonly

\* the list iterator is exhausted: the loop ends and update returns None
update_return ==
    /\ pc = "update"
    /\ it >= Len(systems)
    /\ pc' = "idle"
    /\ result' = None
    /\ UNCHANGED <<variant, systems, system_types, priority, sys_man, it, args, calls, add_order>>
    /\ UNCHANGED <<other_systems, at_start>>
    /\ UNCHANGED emonly

\* a loop that catches what a hook raises and goes on with the next system
hook_step_swallows(raises, component_instance) ==
    /\ pc = "update"
    /\ it < Len(systems)
    /\ LET system == systems[it + 1] IN
       /\ it' = it + 1
       /\ calls' = Append(calls, [system |-> system, args |-> HookArgs(args),
                                  wrote |-> component_instance])
       /\ IF component_instance = NoComponent
          THEN UNCHANGED <<database, held>>
          ELSE /\ database' = AddComponent(build, database, RawInt(0), component_instance)
               /\ held' = HeldAfterAdd(held, 0, component_instance)
       /\ UNCHANGED <<pc, result>>
    /\ UNCHANGED <<variant, systems, system_types, priority, sys_man, args, add_order>>
    /\ UNCHANGED <<other_systems, at_start>>
    /\ UNCHANGED <<build, next_guid, created>>

\* one turn of the loop of a tick with a hook that works on the component
\* database: the hook of the next system adds component_instance to entity 0
\* (NoComponent: it adds nothing) and then returns or raises; nothing in
\* update catches the exception or undoes what the hooks have done
hook_step(raises, component_instance) ==
    /\ pc = "update"
    /\ it < Len(systems)
    /\ LET system == systems[it + 1] IN
       /\ it' = it + 1
       /\ calls' = Append(calls, [system |-> system, args |-> HookArgs(args),
                                  wrote |-> component_instance])
       /\ IF component_instance = NoComponent
          THEN UNCHANGED <<database, held>>
          ELSE /\ database' = AddComponent(build, database, RawInt(0), component_instance)
               /\ held' = HeldAfterAdd(held, 0, component_instance)
       /\ IF raises
          THEN /\ pc' = "idle"
               /\ result' = HookError(system)
          ELSE UNCHANGED <<pc, result>>
    /\ UNCHANGED <<variant, systems, system_types, priority, sys_man, args, add_order>>
    /\ UNCHANGED <<other_systems, at_start>>
    /\ UNCHANGED <<build, next_guid, created>>

\* one turn of the loop of a tick whose hook calls remove_system(system_type)
\* on the manager that runs it: the list iterator has handed out item `it`
\* of the live list, and the removal (the code of remove_system) changes
\* that list under it; a KeyError of ecs/managers.py leaves the hook and update
hook_calls_remove_system(system_type) ==
    /\ pc = "update"
    /\ it < Len(systems)
    /\ it' = it + 1
    /\ calls' = Append(calls, [system |-> systems[it + 1], args |-> HookArgs(args)])
    /\ IF variant = "managers"
       THEN IF ~IsRegistered(system_types, system_type)
            THEN /\ result' = KeyError(system_type)
                 /\ pc' = "idle"
                 /\ UNCHANGED <<systems, system_types, sys_man, add_order>>
            ELSE /\ systems' = ListRemove(systems, system_types[system_type])
                 /\ system_types' = Without(system_types, system_type)
                 /\ add_order' = SelectSeq(add_order, LAMBDA s : type(s) # system_type)
                 /\ UNCHANGED <<pc, result, sys_man>>
       ELSE LET i == FirstOfType(systems, system_type, 1) IN
            IF i = 0
            THEN UNCHANGED <<systems, system_types, sys_man, add_order, pc, result>>
            ELSE /\ sys_man' = [sys_man EXCEPT ![systems[i]] = NoManager]
                 /\ systems' = ListRemove(systems, systems[i])
                 /\ add_order' = SelectSeq(add_order, LAMBDA s : type(s) # system_type)
                 /\ UNCHANGED <<pc, result, system_types>>
    /\ UNCHANGED <<variant, priority, args, other_systems, at_start>>
    /\ UNCHANGED emonly

\* one turn of the loop of a tick whose hook calls add_system on the manager
\* that runs it (the code of add_system; ecs/managers.py takes no priority);
\* the duplicate-type exception leaves the hook and update
hook_calls_add_system(system_instance, priority_arg) ==
    /\ pc = "update"
    /\ it < Len(systems)
    /\ it' = it + 1
    /\ calls' = Append(calls, [system |-> systems[it + 1], args |-> HookArgs(args)])
    /\ IF variant = "managers"
       THEN /\ priority_arg = Omitted
            /\ IF IsRegistered(system_types, type(system_instance))
               THEN /\ result' = DuplicateSystemTypeError(type(system_instance))
                    /\ pc' = "idle"
                    /\ UNCHANGED <<systems, system_types, add_order>>
               ELSE /\ system_types' = system_types @@ (type(system_instance) :> system_instance)
                    /\ systems' = Append(systems, system_instance)
                    /\ add_order' = Append(add_order, system_instance)
                    /\ UNCHANGED <<pc, result>>
            /\ UNCHANGED <<priority, sys_man>>
       ELSE /\ IF HasSystemOfType(systems, type(system_instance))
               THEN /\ result' = DuplicateSystemTypeException
                    /\ pc' = "idle"
                    /\ UNCHANGED <<systems, priority, sys_man, add_order>>
               ELSE /\ priority' = [priority EXCEPT ![system_instance] = ArgOrDefault(priority_arg)]
                    /\ sys_man' = [sys_man EXCEPT ![system_instance] = Self]
                    /\ systems' = SortByKey(Append(systems, system_instance), priority')
                    /\ add_order' = Append(add_order, system_instance)
                    /\ UNCHANGED <<pc, result>>
            /\ UNCHANGED system_types
    /\ UNCHANGED <<variant, args, other_systems, at_start>>
    /\ UNCHANGED emonly

InitSM ==
    /\ build = "cpython2"
    /\ variant \in {"managers", "system"}
    /\ result = None
    /\ InitEntityManager
    /\ InitSystemManager

NextSM ==
    \/ \E s \in Systems : mgr_add_system(s)
    \/ \E T \in SysTypes : mgr_remove_system(T)
    \/ \E s \in Systems, p \in Priorities \cup {Omitted} : sys_add_system(s, p)
    \/ \E T \in SysTypes : sys_remove_system(T)
    \/ \E dt \in Dts : mgr_update(dt)
    \/ \E dt \in Dts : sys_update_systems(dt, "entity_manager")
    \/ \E raises \in BOOLEAN : update_step(raises)
    \/ update_return

SpecSM == InitSM /\ [][NextSM]_vars

\* ecs/system.py SystemManager.add_system(system_instance, priority=0) called
\* on the second manager
other_add_system(system_instance, priority_arg) ==
    /\ variant = "system"
    /\ pc = "idle"
    /\ IF HasSystemOfType(other_systems, type(system_instance))
       THEN /\ result' = DuplicateSystemTypeException
            /\ UNCHANGED <<other_systems, priority, sys_man>>
       ELSE /\ priority' = [priority EXCEPT ![system_instance] = ArgOrDefault(priority_arg)]
            /\ sys_man' = [sys_man EXCEPT ![system_instance] = Other]
            /\ other_systems' = SortByKey(Append(other_systems, system_instance), priority')
            /\ result' = None
    /\ NoTick
    /\ UNCHANGED <<variant, systems, system_types, pc, add_order>>
    /\ UNCHANGED emonly

\* ecs/system.py SystemManager.remove_system(system_type) called on the
\* second manager
other_remove_system(system_type) ==
    /\ variant = "system"
    /\ pc = "idle"
    /\ LET i == FirstOfType(other_systems, system_type, 1) IN
       IF i = 0
       THEN UNCHANGED <<other_systems, sys_man>>
       ELSE /\ sys_man' = [sys_man EXCEPT ![other_systems[i]] = NoManager]
            /\ other_systems' = ListRemove(other_systems, other_systems[i])
    /\ result' = None
    /\ NoTick
    /\ UNCHANGED <<variant, systems, system_types, priority, pc, add_order>>
    /\ UNCHANGED emonly

\* two managers of ecs/system.py and the systems of the program
InitTwo ==
    /\ build = "cpython2"
    /\ variant = "system"
    /\ result = None
    /\ InitEntityManager
    /\ InitSystemManager

NextTwo ==
    \/ \E s \in Systems, p \in Priorities \cup {Omitted} : sys_add_system(s, p)
    \/ \E T \in SysTypes : sys_remove_system(T)
    \/ \E s \in Systems, p \in Priorities \cup {Omitted} : other_add_system(s, p)
    \/ \E T \in SysTypes : other_remove_system(T)

SpecTwo == InitTwo /\ [][NextTwo]_vars

\* ticks whose hooks write components, between registrations of systems
\* (one dt value, default priorities)
NextTick ==
    \/ \E s \in Systems : mgr_add_system(s)
    \/ \E s \in Systems : sys_add_system(s, Omitted)
    \/ mgr_update(1)
    \/ sys_update_systems(1, "entity_manager")
    \/ \E raises \in BOOLEAN, c \in Components \cup {NoComponent} : hook_step(raises, c)
    \/ update_return

SpecTick == InitSM /\ [][NextTick]_vars

\* ticks whose hooks return, or add or remove a system of their own manager
\* (one dt value)
NextReentrant ==
    \/ \E s \in Systems : mgr_add_system(s)
    \/ \E s \in Systems, p \in Priorities \cup {Omitted} : sys_add_system(s, p)
    \/ mgr_update(1)
    \/ sys_update_systems(1, "entity_manager")
    \/ update_step(FALSE)
    \/ \E T \in SysTypes : hook_calls_remove_system(T)
    \/ \E s \in Systems, p \in Priorities \cup {Omitted} : hook_calls_add_system(s, p)
    \/ update_return

SpecReentrant == InitSM /\ [][NextReentrant]_vars

(* ===================== claims on the EntityManager ===================== *)
\* entity g has an entry under type T in the database
Holds(db, g, T) ==
    T \in DOMAIN db /\ \E i \in 1 .. Len(db[T]) : hash(db[T][i].key) = g

\* C1: in every reachable state a component type is a key of the database
\* if and only if at least one entity has an entry under it; no empty inner
\* mapping is left behind.
C1_KeyIffHeld ==
    \A T \in Types :
        (T \in DOMAIN database) <=> (\E g \in Guids : Holds(database, g, T))

\* remove_entity has just emptied and pruned a type (the key view changed
\* size under its loop) while another type is still stored
C1_Witness ==
    /\ result = RuntimeError
    /\ \E T, U \in Types :
        /\ T \notin DOMAIN database
        /\ U \in DOMAIN database
        /\ \E g \in Guids : held[g][U] # NoComponent /\ Holds(database, g, U)

\* C2: while the last add_component(e, c) of type T on e has not been followed
\* by remove_component(e, T) or remove_entity(e), component_for_entity(e, T)
\* returns that c, under either form of the entity argument; a later add of
\* the same type replaces the earlier one.
C2_ReturnsLastAdded ==
    \A k \in Keys, T \in Types :
        held[hash(k)][T] # NoComponent =>
            component_for_entity(database, k, T)
                = Returned(held[hash(k)][T])

\* the query returns the second instance of a type for an entity that
\* shares the type with another entity holding the first instance
C2_Witness ==
    /\ result = None
    /\ \E g, h \in Guids, T \in Types :
        /\ g # h
        /\ component_for_entity(database, RawInt(g), T) = Returned(<<T, 2>>)
        /\ held[g][T] = <<T, 2>>
        /\ held[h][T] = <<T, 1>>
        /\ Holds(database, h, T)

\* the pairs recorded by the call history for type T
HeldPairs(T) == {<<g, held[g][T]>> : g \in {h \in Guids : held[h][T] # NoComponent}}

\* the pairs a pairs_for_type result lists, by the identifier of the entity
PairSet(r) == {<<hash(r.pairs[i][1]), r.pairs[i][2]>> : i \in 1 .. Len(r.pairs)}

\* C3: pairs_for_type(T) lists exactly the (entity, component) pairs added
\* for T and not removed since, each once, and is the empty sequence when no
\* entity holds T.
C3_PairsAreTheHeldOnes ==
    \A T \in Types :
        LET r == pairs_for_type(database, T) IN
        /\ PairSet(r) = HeldPairs(T)
        /\ Len(r.pairs) = Cardinality(HeldPairs(T))

\* C4: whenever the entity holds no component of type T (never added, or
\* removed by remove_component or remove_entity since), component_for_entity
\* raises NonexistentComponentTypeForEntity carrying the entity and the type.
C4_MissingRaises ==
    \A k \in Keys, T \in Types :
        held[hash(k)][T] = NoComponent =>
            component_for_entity(database, k, T)
                = NonexistentComponentTypeForEntity(k, T)

\* the inner mapping without the entry of entity g
Remaining(d, g) == SelectSeq(d, LAMBDA en : hash(en.key) # g)

\* the database with the entries of g deleted and the emptied types pruned
WithoutEntity(db, g) ==
    LET keep == {T \in DOMAIN db : Remaining(db[T], g) # <<>>} IN
    [T \in keep |-> Remaining(db[T], g)]

\* C5: remove_entity(e) leaves the previous database with the entry of e
\* deleted under every type and every emptied type pruned; the entries of
\* the other entities are unchanged.
C5_RemoveEntityEffect ==
    [][\A k \in Keys :
          remove_entity(k) => database' = WithoutEntity(database, hash(k))]_vars

\* C6: the k-th create_entity call returns identifier k-1, whatever
\* add_component, remove_component and remove_entity calls are interleaved;
\* hence the identifiers are distinct, increasing and never reused.
C6_KthCreateReturnsKMinus1 ==
    /\ \A i \in 1 .. Len(created) : created[i] = i - 1
    /\ result.kind = "entity" =>
           result = ReturnedEntity(Entity(Len(created) - 1))

\* the second identifier has just been handed out while the first entity
\* holds a component
C6_Witness ==
    /\ result = ReturnedEntity(Entity(1))
    /\ Len(created) = 2
    /\ \E T \in Types : held[0][T] # NoComponent /\ Holds(database, 0, T)
(* ===================== claims on the SystemManager ===================== *)
\* the types of the systems in the ordered list
TypesIn(l) == {type(l[i]) : i \in 1 .. Len(l)}

\* the position of system s in list l (0 when absent)
RECURSIVE PosIn(_, _, _)
PosIn(l, s, i) ==
    IF i > Len(l) THEN 0 ELSE IF l[i] = s THEN i ELSE PosIn(l, s, i + 1)

C8_OnePerTypeAndRegistryConsistent ==
    /\ \A i, j \in 1 .. Len(systems) :
           i # j => type(systems[i]) # type(systems[j])
    /\ variant = "managers" =>
           /\ DOMAIN system_types = TypesIn(systems)
           /\ \A T \in DOMAIN system_types :
                  /\ type(system_types[T]) = T
                  /\ PosIn(systems, system_types[T], 1) # 0

\* a removal of an unregistered type has just failed with another system registered
C8_Witness ==
    /\ variant = "managers"
    /\ \E T \in SysTypes : result = KeyError(T)
    /\ Len(systems) >= 1

\* the last call was a tick and it has returned
TickReturned == pc = "idle" /\ args # <<>> /\ result = None

\* the number of hook invocations of system s in the log
TimesCalled(log, s) == Cardinality({i \in 1 .. Len(log) : log[i].system = s})

C10_SortedStableAndTickOrder ==
    /\ [](/\ \A i, j \in 1 .. Len(systems) :
               i < j =>
                   /\ priority[systems[i]] <= priority[systems[j]]
                   /\ priority[systems[i]] = priority[systems[j]] =>
                          PosIn(add_order, systems[i], 1) < PosIn(add_order, systems[j], 1)
          /\ {systems[i] : i \in 1 .. Len(systems)} = {add_order[i] : i \in 1 .. Len(add_order)}
          /\ \A i \in 1 .. Len(calls) : calls[i].system = systems[i]
          /\ TickReturned => Len(calls) = Len(systems))
    /\ [][\A s \in Systems :
             (sys_add_system(s, Omitted) /\ result' = None) => priority'[s] = 0]_vars

\* systems added with priorities 1 and then 0 have been run in the order 0, 1
C10_Witness ==
    /\ TickReturned
    /\ Len(add_order) = 2
    /\ Len(calls) = 2
    /\ priority[add_order[1]] = 1 /\ priority[add_order[2]] = 0
    /\ calls[1].system = add_order[2] /\ calls[2].system = add_order[1]

\* the systems a tick has invoked, in the order of the invocations
Invoked(log) == [i \in 1 .. Len(log) |-> log[i].system]

C12_RemovalsOfNothingAreNoOps ==
    [][/\ \A k \in Keys, T \in Types :
             remove_component(k, T) =>
                 /\ ~Holds(database, hash(k), T) =>
                        database' = database /\ result' = None
                 /\ RemoveComponent(database', k, T) = database'
       /\ \A k \in Keys :
             remove_entity(k) =>
                 /\ (\A T \in Types : ~Holds(database, hash(k), T)) =>
                        database' = database /\ result' = None
                 /\ \A ks \in KeyOrders(database') :
                        LET again == RemoveEntity(build, database', ks, k) IN
                        again.db = database' /\ ~again.raised]_vars

\* the two forms of the entity argument for identifier g
Forms(g) == {Entity(g), RawInt(g)}

\* C14: Entity(n) and the int n address one slot: two keys are equal exactly
\* when their identifiers match; a type lists an identifier at most once;
\* component_for_entity answers the same under both forms; and whichever
\* form a call uses, add_component makes both forms return the new
\* component, remove_component leaves no entry of the entity under the type
\* and remove_entity leaves no entry of the entity at all.
C14_EntityAndIntInterchangeable ==
    /\ [](/\ \A a, b \in Keys : eq(a, b) <=> a.guid = b.guid
          /\ \A T \in DOMAIN database : \A i, j \in 1 .. Len(database[T]) :
                 i # j => hash(database[T][i].key) # hash(database[T][j].key)
          /\ \A g \in Guids, T \in Types :
                 LET r == component_for_entity(database, Entity(g), T)
                     q == component_for_entity(database, RawInt(g), T)
                 IN /\ r.kind = q.kind
                    /\ r.kind = "component" => r = q
                    /\ held[g][T] # NoComponent => r = Returned(held[g][T]))
    /\ [][\A k \in Keys :
             /\ \A c \in Components :
                    add_component(k, c) =>
                        \A f \in Forms(hash(k)) :
                            component_for_entity(database', f, type(c)) = Returned(c)
             /\ \A T \in Types :
                    remove_component(k, T) => ~Holds(database', hash(k), T)
             /\ remove_entity(k) =>
                    \A T \in Types : ~Holds(database', hash(k), T)]_vars

\* C16: remove_entity(e) (delete_entity(e) in ecs/entity.py) returns normally
\* in every database state and has then visited every type: no entry of e is
\* left under any type, also when e was the only holder of one or several
\* types and those were pruned under the loop.
C16_TraversesSnapshot ==
    [][\A k \in Keys :
          ((variant = "managers" /\ remove_entity(k))
              \/ (variant = "entity" /\ delete_entity(k))) =>
              /\ result' = None
              /\ \A T \in Types : ~Holds(database', hash(k), T)]_vars

\* C17: in every reachable database, remove_component(e, T) on an existing
\* (e, T) entry deletes that entry only: the mapping of T becomes the
\* previous one without the entry of e (T is no key any more when that was
\* its last entry) and the mapping of every other type is unchanged; the
\* counter changes in no call but create_entity.
C17_RemoveComponentFrame ==
    /\ [](\A k \in Keys, T \in Types :
            Holds(database, hash(k), T) =>
                LET after == RemoveComponent(database, k, T) IN
                /\ ~Holds(after, hash(k), T)
                /\ IF Remaining(database[T], hash(k)) = <<>>
                   THEN T \notin DOMAIN after
                   ELSE /\ T \in DOMAIN after
                        /\ after[T] = Remaining(database[T], hash(k))
                /\ DOMAIN after \ {T} = DOMAIN database \ {T}
                /\ \A U \in DOMAIN database \ {T} : after[U] = database[U])
    /\ [][next_guid' # next_guid =>
             result' = ReturnedEntity(Entity(next_guid))]_vars

\* entity 0 has no entry under the first type (none recorded as held, the
\* type still a key) while entity 1 holds that type and entity 0 another one
C17_Witness ==
    /\ result = None
    /\ next_guid = 2
    /\ held[0][1] = NoComponent /\ ~Holds(database, 0, 1)
    /\ held[1][1] = <<1, 2>> /\ Holds(database, 1, 1)
    /\ held[0][2] = <<2, 1>> /\ Holds(database, 0, 2)

\* entity g has an entry under some type
HoldsAny(db, g) == \E T \in Types : Holds(db, g, T)

\* C19: create_entity leaves the database as it was and advances the counter
\* by one; the entity it returns is in no pairs_for_type result and
\* component_for_entity raises for it under every type; an identifier that
\* has not been handed out has no entry, and an entity without entries gets
\* its first one only by an add_component call for it.
C19_CreateEntityChangesOnlyCounter ==
    /\ [](\A g \in Guids : g >= next_guid => ~HoldsAny(database, g))
    /\ [][create_entity =>
             /\ database' = database
             /\ next_guid' = next_guid + 1
             /\ \A T \in Types :
                    /\ \A p \in PairSet(pairs_for_type(database', T)) : p[1] # next_guid
                    /\ component_for_entity(database', Entity(next_guid), T)
                           = NonexistentComponentTypeForEntity(Entity(next_guid), T)]_vars
    /\ [][\A g \in Guids :
             (~HoldsAny(database, g) /\ HoldsAny(database', g)) =>
                 \E c \in Components : add_component(Entity(g), c)]_vars

\* the second entity has just been created next to a first entity that
\* holds components of two types, and has no entry itself
C19_Witness ==
    /\ result = ReturnedEntity(Entity(1))
    /\ Holds(database, 0, 1) /\ Holds(database, 0, 2)
    /\ ~HoldsAny(database, 1)

\* the identifiers of the entities pairs_for_type(T) lists, in its order
ListedOrder(db, T) ==
    LET ps == pairs_for_type(db, T).pairs IN
    [i \in 1 .. Len(ps) |-> hash(ps[i][1])]

\* a sequence of identifiers in ascending order
Ascending(l) == \A i, j \in 1 .. Len(l) : i < j => l[i] < l[j]

AfterQuery(r) ==
    \/ r.kind \in {"pairs", "component"}
    \/ r.kind = "raise" /\ r.exc = "NonexistentComponentTypeForEntity"

\* C22: pairs_for_type and component_for_entity, whether they return or
\* raise and whether the type is a key of the database or not, leave the
\* database (no key is added for the queried type) and the counter as they
\* were.
C22_QueriesAreReadOnly ==
    [][/\ AfterQuery(result') =>
             /\ database' = database
             /\ next_guid' = next_guid
       /\ \A T \in Types :
             call_pairs_for_type(T) =>
                 AfterQuery(result') /\ DOMAIN database' = DOMAIN database
       /\ \A k \in KnownKeys, T \in Types :
             call_component_for_entity(k, T) => AfterQuery(result')]_vars

\* component_for_entity has just failed for an entity and a type that is no
\* key of the database, while the database holds another type
C22_Witness ==
    /\ \E g \in Guids, T \in Types :
          /\ result = NonexistentComponentTypeForEntity(Entity(g), T)
          /\ T \notin DOMAIN database
    /\ database # <<>>

\* the database after remove_component(entity_id, T) for the types of ks, one
\* call after the other
RECURSIVE RemoveEach(_, _, _)
RemoveEach(db, ks, entity_id) ==
    IF ks = <<>> THEN db
    ELSE RemoveEach(RemoveComponent(db, entity_id, Head(ks)), Tail(ks), entity_id)

\* C23: remove_entity(e) leaves the database that remove_component(e, T),
\* called once for each type T that is a key of the database, leaves,
\* whatever the order of the types.
C23_RemoveEntityIsRemoveEach ==
    [][\A k \in Keys :
          remove_entity(k) =>
              \A ks \in KeyOrders(database) :
                  database' = RemoveEach(database, ks, k)]_vars

\* C24: in every reachable database in which entity e has no entry under
\* type T, add_component(e, c) with a component c of type T followed by
\* remove_component(e, T), under either form of e in either call, gives the
\* original database back; T is a key afterwards only if it was one before.
C24_AddThenRemoveRestores ==
    \A g \in Guids, c \in Components :
        ~Holds(database, g, type(c)) =>
            \A k \in Forms(g), f \in Forms(g) :
                LET added == AddComponent(build, database, k, c)
                    back == RemoveComponent(added, f, type(c))
                IN /\ Holds(added, g, type(c))
                   /\ back = database
                   /\ (type(c) \in DOMAIN back) <=> (type(c) \in DOMAIN database)

\* no entity holds the first type and it is no key, entity 0 has no entry
\* under it after an add and a removal, and both entities hold the second type
C24_Witness ==
    /\ result = None
    /\ 1 \notin DOMAIN database
    /\ held[0][1] = NoComponent
    /\ Holds(database, 0, 2) /\ Holds(database, 1, 2)
    /\ held[1][2] = <<2, 1>>

(* ================== further claims on the SystemManager ================ *)
\* the component of type T that the hooks of the log wrote last
RECURSIVE LastWrite(_, _)
LastWrite(log, T) ==
    IF log = <<>> THEN NoComponent
    ELSE IF type(log[Len(log)].wrote) = T THEN log[Len(log)].wrote
    ELSE LastWrite(SubSeq(log, 1, Len(log) - 1), T)

\* the last call was a tick and a hook raised out of it
HookFailed == result.kind = "raise" /\ result.exc = "HookError"

\* C13: when the hook of the system at position k raises, update ends there
\* with that exception; the tick has invoked the systems at positions 1 .. k
\* once each, in order, and none behind k; no step of a tick changes the list,
\* the registry, a priority or a back-reference; and the database holds what
\* the hooks of the tick wrote (per type, the last write), nothing is undone.
C13_FailingHookAbortsTick ==
    /\ [](HookFailed =>
            LET k == Len(calls) IN
            /\ pc = "idle"
            /\ k >= 1 /\ k <= Len(systems)
            /\ calls[k].system = result.system
            /\ \A i \in 1 .. k : calls[i].system = systems[i]
            /\ \A s \in Systems :
                   TimesCalled(calls, s) =
                       IF PosIn(systems, s, 1) \in 1 .. k THEN 1 ELSE 0
            /\ \A T \in Types :
                   LastWrite(calls, T) # NoComponent =>
                       component_for_entity(database, RawInt(0), T)
                           = Returned(LastWrite(calls, T)))
    /\ [][\A c \in Components \cup {NoComponent} :
             hook_step(TRUE, c) =>
                 /\ pc' = "idle"
                 /\ result' = HookError(systems[it + 1])
                 /\ systems' = systems]_vars
    /\ [][pc = "update" =>
             UNCHANGED <<systems, system_types, priority, sys_man>>]_vars

\* the hook of the first of two systems wrote a component and raised: the
\* second system was not invoked, and the database holds that write next to
\* what a hook of an earlier tick wrote
C13_Witness ==
    /\ HookFailed
    /\ Len(systems) = 2
    /\ Len(calls) = 1
    /\ calls[1].wrote = <<1, 2>>
    /\ component_for_entity(database, Entity(0), 1) = Returned(<<1, 2>>)
    /\ component_for_entity(database, Entity(0), 2) = Returned(<<2, 1>>)

\* C18 as claimed: remove_system(T) for a type T that is not registered
\* raises nothing and leaves the list, the registry and every back-reference
\* as they were.
C18_UnregisteredRemovalIsSilent ==
    [][\A T \in SysTypes :
          (T \notin TypesIn(systems)
              /\ (mgr_remove_system(T) \/ sys_remove_system(T))) =>
              /\ result' = None
              /\ UNCHANGED <<systems, system_types, sys_man>>]_vars

\* C18 as amended: remove_system(T) for a type T that is not registered
\* leaves the list, the registry and every back-reference as they were; in
\* ecs/system.py it returns normally, in ecs/managers.py it raises the
\* KeyError of the registry lookup, which names T.
C18_UnregisteredRemovalKeepsState ==
    [][\A T \in SysTypes :
          (T \notin TypesIn(systems)
              /\ (mgr_remove_system(T) \/ sys_remove_system(T))) =>
              /\ result' = IF variant = "managers" THEN KeyError(T) ELSE None
              /\ UNCHANGED <<systems, system_types, sys_man>>]_vars

\* the removal of the second type has just failed in a manager whose only
\* system is the second instance of the first type
C18_Witness ==
    /\ variant = "managers"
    /\ result = KeyError(2)
    /\ systems = << <<1, 2>> >>
    /\ DOMAIN system_types = {1}

\* C15: the back-reference of a system names a manager exactly while the
\* system is in the list of that manager; add_system stores the manager and
\* the priority given, remove_system clears the back-reference.
C15_BackReferenceWhileRegistered ==
    /\ [](\A s \in Systems :
            /\ (sys_man[s] = Self) <=> (PosIn(systems, s, 1) # 0)
            /\ (sys_man[s] = Other) <=> (PosIn(other_systems, s, 1) # 0))
    /\ [][\A s \in Systems, p \in Priorities \cup {Omitted} :
             /\ (sys_add_system(s, p) /\ result' = None) =>
                    sys_man'[s] = Self /\ priority'[s] = ArgOrDefault(p)
             /\ (other_add_system(s, p) /\ result' = None) =>
                    sys_man'[s] = Other /\ priority'[s] = ArgOrDefault(p)]_vars

\* the systems of a list
Members(l) == {l[i] : i \in 1 .. Len(l)}

\* C21: when a tick in which hooks called add_system or remove_system on
\* their own manager returns, every system that was in the list when the
\* tick was entered and is in it now has been invoked exactly once.
C21_NoSystemSkippedOrRepeated ==
    TickReturned =>
        \A s \in Members(at_start) \cap Members(systems) :
            TimesCalled(calls, s) = 1
====
